---- MODULE Spec2Model ----
(***************************************************************************)
(* git-nearit: the review workflow (handle_review, run_review,            *)
(* download_review, list_reviews) over the local git client and the       *)
(* Gitea / GitLab hosting clients.  One behaviour is one invocation of    *)
(* the command line tool against one repository and one hosting platform. *)
(***************************************************************************)
EXTENDS Integers, Sequences, FiniteSets, TLC

(***************************************************************************)
(* Bounds of the model.                                                    *)
(***************************************************************************)
\* The largest number of open reviews the platform holds at the start.
MaxReviews == 2

(***************************************************************************)
(* Python values.  Optional[T] is <<>> (None) or <<v>>.                    *)
(***************************************************************************)
None == <<>>

Some(v) == <<v>>

\* bool(x) of an Optional[str]: None and "" are falsy.
Truthy(opt) == opt /= None /\ opt[1] /= ""

\* str.startswith
StartsWith(s, p) == Len(s) >= Len(p) /\ SubSeq(s, 1, Len(p)) = p

\* the text after a prefix of length Len(p)
DropPrefix(s, p) == SubSeq(s, Len(p) + 1, Len(s))

\* "%02d" / "%04d" of strftime
Pad2(n) == IF n < 10 THEN "0" \o ToString(n) ELSE ToString(n)

Pad4(n) ==
    IF n < 10 THEN "000" \o ToString(n)
    ELSE IF n < 100 THEN "00" \o ToString(n)
    ELSE IF n < 1000 THEN "0" \o ToString(n)
    ELSE ToString(n)

\* datetime.strftime("%Y%m%d%H%M%S") of <<year, month, day, hour, minute, second>>
Strftime(t) ==
    Pad4(t[1]) \o Pad2(t[2]) \o Pad2(t[3]) \o Pad2(t[4]) \o Pad2(t[5]) \o Pad2(t[6])

(***************************************************************************)
(* Python strings.                                                         *)
(***************************************************************************)
\* sub occurs in s at position i
OccursAt(s, sub, i) ==
    /\ i + Len(sub) - 1 <= Len(s)
    /\ SubSeq(s, i, i + Len(sub) - 1) = sub

\* str.find, counted from 1: the first position of sub in s, 0 when there is none
Find(s, sub) ==
    IF \E i \in 1..Len(s) : OccursAt(s, sub, i)
    THEN CHOOSE i \in 1..Len(s) :
             /\ OccursAt(s, sub, i)
             /\ \A j \in 1..(i - 1) : ~OccursAt(s, sub, j)
    ELSE 0

\* sub in s
Contains(s, sub) == Find(s, sub) > 0

\* s[i:], counted from 1
From(s, i) == SubSeq(s, i, Len(s))

RECURSIVE Remove(_, _)
\* s.replace(old, ""): every occurrence, left to right
Remove(s, old) ==
    LET i == Find(s, old)
    IN  IF i = 0 THEN s
        ELSE SubSeq(s, 1, i - 1) \o Remove(From(s, i + Len(old)), old)

RECURSIVE Split(_, _)
\* s.split(sep)
Split(s, sep) ==
    LET i == Find(s, sep)
    IN  IF i = 0 THEN <<s>>
        ELSE <<SubSeq(s, 1, i - 1)>> \o Split(From(s, i + Len(sep)), sep)

\* s.split(sep, 1)
SplitOnce(s, sep) ==
    LET i == Find(s, sep)
    IN  IF i = 0 THEN <<s>>
        ELSE <<SubSeq(s, 1, i - 1), From(s, i + Len(sep))>>

RECURSIVE Strip(_, _)
\* s.strip(c) for one character c
Strip(s, c) ==
    IF s = "" THEN s
    ELSE IF SubSeq(s, 1, 1) = c THEN Strip(From(s, 2), c)
    ELSE IF SubSeq(s, Len(s), Len(s)) = c THEN Strip(SubSeq(s, 1, Len(s) - 1), c)
    ELSE s

RECURSIVE Join(_, _)
\* sep.join(parts)
Join(parts, sep) ==
    IF parts = <<>> THEN ""
    ELSE IF Len(parts) = 1 THEN parts[1]
    ELSE parts[1] \o sep \o Join(Tail(parts), sep)

\* parts[:-1]
ButLast(parts) == SubSeq(parts, 1, Len(parts) - 1)

LowerLetters == "abcdefghijklmnopqrstuvwxyz"

UpperLetters == "ABCDEFGHIJKLMNOPQRSTUVWXYZ"

\* c is one of the characters of the string chars
CharIn(c, chars) == \E i \in 1..Len(chars) : SubSeq(chars, i, i) = c

RECURSIVE Lower(_)
\* str.lower on ASCII text
Lower(s) ==
    IF s = "" THEN s
    ELSE LET c == SubSeq(s, 1, 1)
         IN  (IF CharIn(c, UpperLetters)
              THEN LET i == Find(UpperLetters, c) IN SubSeq(LowerLetters, i, i)
              ELSE c) \o Lower(From(s, 2))

(***************************************************************************)
(* urllib.parse.urlparse, for URLs without query, fragment and parameters. *)
(***************************************************************************)
\* the characters urlsplit accepts in a scheme
SchemeChars == LowerLetters \o UpperLetters \o "0123456789+-."

\* urlsplit: the text before the first ":" is a scheme when it starts with a letter
\* and holds scheme characters only
HasScheme(url) ==
    LET i == Find(url, ":")
    IN  /\ i > 1
        /\ CharIn(SubSeq(url, 1, 1), LowerLetters \o UpperLetters)
        /\ \A j \in 1..(i - 1) : CharIn(SubSeq(url, j, j), SchemeChars)

UrlScheme(url) == IF HasScheme(url) THEN Lower(SubSeq(url, 1, Find(url, ":") - 1)) ELSE ""

\* what follows the scheme and its ":"
AfterScheme(url) == IF HasScheme(url) THEN From(url, Find(url, ":") + 1) ELSE url

\* the authority: after "//", up to the next "/"
UrlNetloc(url) ==
    LET rest == AfterScheme(url)
    IN  IF OccursAt(rest, "//", 1) THEN SplitOnce(From(rest, 3), "/")[1] ELSE ""

UrlPath(url) ==
    LET rest == AfterScheme(url)
    IN  IF OccursAt(rest, "//", 1)
        THEN LET i == Find(From(rest, 3), "/")
             IN  IF i = 0 THEN "" ELSE From(From(rest, 3), i)
        ELSE rest

(***************************************************************************)
(* base_vcs_client.py: BaseVCSClient._parse_remote_url                     *)
(***************************************************************************)
\* raise ValueError(...)
ParseError == <<"ValueError">>

\* the dictionary _parse_remote_url returns (lines 79-89, 53-56)
Descriptor(base_url, hostname, path) ==
    <<"return", [base_url |-> base_url,
                 hostname |-> hostname,
                 owner |-> Join(ButLast(path), "/"),
                 repo |-> path[Len(path)],
                 full_path |-> Join(path, "/")]>>

\* lines 44-56: the git@ form
ParseScp(remote_url) ==
    LET parts == Split(Remove(Remove(remote_url, "git@"), ".git"), ":")
    IN  IF Len(parts) /= 2 THEN ParseError
        ELSE LET hostname == parts[1]
                 path == Split(parts[2], "/")
             IN  IF Len(path) < 2 THEN ParseError
                 ELSE Descriptor("https://" \o hostname, hostname, path)

\* lines 62-68: hostname, from netloc without user and port
NetlocHostname(netloc) ==
    LET host == IF Contains(netloc, "@") THEN SplitOnce(netloc, "@")[2] ELSE netloc
    IN  IF Contains(host, ":") THEN SplitOnce(host, ":")[1] ELSE host

\* lines 58-81: every other form, through urlparse
ParseUrl(remote_url) ==
    LET scheme == UrlScheme(remote_url)
        hostname == NetlocHostname(UrlNetloc(remote_url))
        base_url == IF scheme = "ssh" THEN "https://" \o hostname
                    ELSE scheme \o "://" \o hostname
        path == Split(Remove(Strip(UrlPath(remote_url), "/"), ".git"), "/")
    IN  IF Len(path) < 2 THEN ParseError
        ELSE Descriptor(base_url, hostname, path)

\* _parse_remote_url(repo); origin is None when the repository has no remote origin
parse_remote_url(origin) ==
    IF origin = None THEN ParseError
    ELSE IF StartsWith(origin[1], "git@") THEN ParseScp(origin[1])
    ELSE ParseUrl(origin[1])

(***************************************************************************)
(* The inputs the model draws from.                                        *)
(***************************************************************************)
\* what datetime.now() may return when a change branch is created
Datetimes == { <<2025, 1, 1, 12, 0, 0>>, <<2026, 11, 3, 6, 5, 59>> }

\* the local branches of the repository at the start
StartBranches == { "main", "develop", "change/20240101120000", "feature/x" }

\* refs/remotes/origin/HEAD: not configured, or pointing at main
OriginHeads == { None, Some("refs/remotes/origin/main") }

\* the remote origin of a run: none, a repository of a host, a bare repository name
Origins ==
    { None, Some("git@gitea.example.com:o/r.git"), Some("https://gitea.example.com/r.git") }

\* the positional TARGET_BRANCH argument
TargetArgs == { None, Some(""), Some("main"), Some("develop") }

\* the --download option
DownloadArgs == { None, Some(0), Some(42) }

Backends == { "gitea", "gitlab" }

\* what the user composes at the title prompt (type/description)
PromptTitles == { "fix/a" }

\* an open review of the platform
Rev(n, t, h, b) ==
    [number |-> n, title |-> t, head |-> h, base |-> b,
     url |-> "https://example.com/pulls/" \o ToString(n)]

\* the open reviews the platform may hold at the start
StartReviews ==
    { Rev(1, "fix/a", "change/20240101120000", "main"),
      Rev(2, "WIP: fix/a", "change/20240101120000", "develop"),
      Rev(3, "WIP: fix/b", "feature/x", "main") }

RECURSIVE SeqsNoDup(_, _)
\* the sequences of at most n distinct elements of S
SeqsNoDup(S, n) ==
    IF n = 0 THEN { <<>> }
    ELSE { <<>> } \cup
         UNION { { <<x>> \o s : s \in { r \in SeqsNoDup(S, n - 1) :
                                           \A i \in 1..Len(r) : r[i] /= x } } :
                 x \in S }

VARIABLES
    \* the repository and its configuration
    dirty,            \* Repo.is_dirty(untracked_files=False)
    head,             \* the checked-out branch
    local,            \* local branch -> commit
    track,            \* remote-tracking branch origin/<b> -> commit
    originHead,       \* refs/remotes/origin/HEAD
    tokenSet,         \* a token is resolvable from the git configuration
    remote_url,       \* the URL of the remote origin, None without such a remote
    \* the hosting platform
    reviews,          \* its open reviews, in the order it lists them
    \* the command line
    backend, target_branch, download, list, wip, ready,
    \* the running use case
    pc, main_branch, current_branch, target, branch_name, current_to_reset,
    existing_review, title, review, pr,
    parsed,           \* what _parse_remote_url gave the hosting client, None before
    \* what the run did
    trace,            \* the calls made and git commands run, in order
    exit_code,        \* -1 while running, then the exit status
    error,            \* the class of the exception that ended the run
    failed,           \* the operation whose failure ended the run
    reported          \* the URLs logged

conf == <<dirty, originHead, tokenSet, remote_url>>

repo == <<head, local, track>>

argv == <<backend, target_branch, download, list, wip, ready>>

locals ==
    <<main_branch, current_branch, target, branch_name, current_to_reset,
      existing_review, title, review, pr>>

vars ==
    <<conf, repo, reviews, argv, pc, locals, parsed, trace, exit_code, error, failed,
      reported>>

(***************************************************************************)
(* The trace.                                                              *)
(***************************************************************************)
Call(op, args) == [op |-> op, args |-> args]

Calls(op) == SelectSeq(trace, LAMBDA e : e.op = op)

Count(op) == Len(Calls(op))

Called(op) == \E i \in 1..Len(trace) : trace[i].op = op

\* the place of the first op in the trace, 0 when there is none
FirstIdx(op) ==
    IF Called(op) THEN CHOOSE i \in 1..Len(trace) :
                           /\ trace[i].op = op
                           /\ \A j \in 1..(i - 1) : trace[j].op /= op
    ELSE 0

Init ==
    /\ dirty \in BOOLEAN
    /\ head \in StartBranches
    /\ local = [b \in StartBranches |-> IF b = head THEN 1 ELSE 0]
    /\ track = [b \in StartBranches |-> 0]
    /\ originHead \in OriginHeads
    /\ tokenSet \in BOOLEAN
    /\ remote_url \in Origins
    /\ parsed = None
    /\ reviews \in SeqsNoDup(StartReviews, MaxReviews)
    /\ backend \in Backends
    /\ target_branch \in TargetArgs
    /\ download \in DownloadArgs
    /\ list \in BOOLEAN
    /\ wip \in BOOLEAN
    /\ ready \in BOOLEAN
    /\ pc = "handle_review"
    /\ main_branch = "" /\ current_branch = "" /\ target = ""
    /\ branch_name = "" /\ current_to_reset = ""
    /\ existing_review = None /\ title = "" /\ review = None /\ pr = None
    /\ trace = <<>>
    /\ exit_code = -1
    /\ error = ""
    /\ failed = ""
    /\ reported = <<>>

(***************************************************************************)
(* How a run ends.                                                         *)
(***************************************************************************)
\* a plausible slip: the `except Exception` clause left out
HandledValueErrorOnly(err) == err = "ValueError"

\* lines 108-113: the except clauses of a use case catch ValueError and every
\* other Exception, the classes the git client and the adapters raise
Handled(err) == err \in { "ValueError", "GitCommandError", "GiteaAPIError", "GitlabAPIError" }

\* an exception reaches the except clauses of the use case, or sys.exit(1)
\* is called: the handlers log and call sys.exit(1), and SystemExit, which is
\* no Exception, passes them with its status 1; an exception no clause catches
\* leaves the use case
Raise(err, at) ==
    /\ pc' = IF err = "SystemExit" \/ Handled(err) THEN "done" ELSE "escaped"
    /\ exit_code' = 1
    /\ error' = err
    /\ failed' = at

\* the use case returns
Return ==
    /\ pc' = "done"
    /\ exit_code' = 0
    /\ error' = ""
    /\ failed' = ""

Log(entries) == trace' = trace \o entries

(***************************************************************************)
(* main.py: handle_review                                                  *)
(***************************************************************************)
\* a plausible slip: the check of --ready with --wip left out
HandleReviewUsageErrorNoExclusive(t, d, l, w, r) ==
    LET download_mode == d /= None
        list_mode == l
        submit_mode == ~download_mode /\ ~list_mode
    IN  IF download_mode /\ list_mode
        THEN "You must use exactly one mode: submit, --download, or --list."
        ELSE IF download_mode /\ t /= None THEN "--download cannot be used with TARGET_BRANCH"
        ELSE IF w /\ ~submit_mode THEN "--wip can only be used in submit mode"
        ELSE IF r /\ ~submit_mode THEN "--ready can only be used in submit mode"
        ELSE ""

\* the message of the click.UsageError handle_review raises, "" when none
HandleReviewUsageError(t, d, l, w, r) ==
    LET download_mode == d /= None
        list_mode == l
        submit_mode == ~download_mode /\ ~list_mode
        modes == (IF download_mode THEN 1 ELSE 0) + (IF list_mode THEN 1 ELSE 0)
                 + (IF submit_mode THEN 1 ELSE 0)
    IN  IF modes /= 1 THEN "You must use exactly one mode: submit, --download, or --list."
        ELSE IF download_mode /\ t /= None THEN "--download cannot be used with TARGET_BRANCH"
        ELSE IF w /\ ~submit_mode THEN "--wip can only be used in submit mode"
        ELSE IF r /\ ~submit_mode THEN "--ready can only be used in submit mode"
        ELSE IF r /\ w THEN "--ready and --wip are mutually exclusive flags"
        ELSE ""

\* a plausible slip: the download option tested for truth, so that id 0 is no download
HandleReviewDispatchTruthy(d, l) ==
    IF d /= None /\ d[1] /= 0 THEN "download_review"
    ELSE IF l THEN "list_reviews"
    ELSE "run_review"

\* the use case handle_review enters once the flags are accepted
HandleReviewDispatch(d, l) ==
    IF d /= None THEN "download_review"
    ELSE IF l THEN "list_reviews"
    ELSE "run_review"

handle_review ==
    /\ pc = "handle_review"
    /\ LET msg == HandleReviewUsageError(target_branch, download, list, wip, ready)
           use == HandleReviewDispatch(download, list)
       IN  IF msg /= ""
           THEN /\ pc' = "done"
                /\ exit_code' = 2
                /\ error' = "UsageError"
                /\ failed' = "handle_review"
                /\ UNCHANGED trace
           ELSE /\ pc' = use
                /\ Log(<<Call(use,
                        IF use = "download_review" THEN <<backend, download[1]>>
                        ELSE IF use = "list_reviews" THEN <<backend, target_branch>>
                        ELSE <<backend, target_branch, wip, ready>>)>>)
                /\ UNCHANGED <<exit_code, error, failed>>
    /\ UNCHANGED <<conf, parsed, repo, reviews, argv, locals, reported>>

(***************************************************************************)
(* clients/git_client.py                                                   *)
(***************************************************************************)
\* a plausible slip: "main" as the fallback
get_main_branch_or_main ==
    IF originHead = None THEN "main" ELSE DropPrefix(originHead[1], "refs/remotes/origin/")

\* GitClient.get_main_branch
get_main_branch ==
    IF originHead = None THEN "master"
    ELSE IF StartsWith(originHead[1], "refs/remotes/origin/")
         THEN DropPrefix(originHead[1], "refs/remotes/origin/")
         ELSE originHead[1]

\* GitClient.get_current_branch
get_current_branch == head

\* GitClient.is_on_main_branch, evaluated on the repository as it is now
is_on_main_branch == get_current_branch = get_main_branch

\* the name GitClient.create_change_branch gives the branch
ChangeBranchName(now) == "change/" \o Strftime(now)

\* a plausible slip: the lease dropped from the push
PushArgsNoLease(branch, force_with_lease, set_upstream) ==
    (IF set_upstream THEN <<"-u">> ELSE <<>>) \o <<"origin", branch, "--quiet">>

\* the arguments GitClient.push_branch hands to git push
PushArgs(branch, force_with_lease, set_upstream) ==
    (IF set_upstream THEN <<"-u">> ELSE <<>>)
    \o <<"origin", branch, "--quiet">>
    \o (IF force_with_lease THEN <<"--force-with-lease">> ELSE <<>>)

(***************************************************************************)
(* clients/gitea_client.py, clients/gitlab_client.py                       *)
(***************************************************************************)
\* how one HTTP request may end
Responses == { "ok", "http_error", "transport_error" }

\* the exception class _make_request raises for a failed request
APIError(b) == IF b = "gitea" THEN "GiteaAPIError" ELSE "GitlabAPIError"

\* the constructor cli.py calls for a platform
ClientClass(b) == IF b = "gitea" THEN "GiteaClient" ELSE "GitLabClient"

\* Review(title=..., url=..., number=...) built from one listed pull request
AsReview(r) == [title |-> r.title, url |-> r.url, number |-> r.number]

\* BaseVCSClient._add_prefix
AddPrefix(text, prefix) == prefix \o text

\* BaseVCSClient._remove_prefix
RemovePrefix(text, prefix) == IF StartsWith(text, prefix) THEN DropPrefix(text, prefix) ELSE text

\* the title prefix that marks a draft on a platform
DraftPrefix(b) == IF b = "gitea" THEN "WIP: " ELSE "[Draft] "

RECURSIVE FirstWithHead(_, _)
\* GiteaClient.check_existing_review: the loop over the open pull requests
FirstWithHead(pulls, source) ==
    IF pulls = <<>> THEN None
    ELSE IF Head(pulls).head = source THEN Some(AsReview(Head(pulls)))
    ELSE FirstWithHead(Tail(pulls), source)

\* a plausible slip: the head of a pull request compared with the target branch
GiteaCheckExistingByTarget(pulls, source, tgt) == FirstWithHead(pulls, tgt)

\* GiteaClient.check_existing_review on the platform's answer
GiteaCheckExisting(pulls, source, tgt) == FirstWithHead(pulls, source)

\* a plausible slip: the target left out of the GitLab query
GitLabCheckExistingAnyTarget(pulls, source, tgt) == FirstWithHead(pulls, source)

\* GitLabClient.check_existing_review: the platform filters by source and target
GitLabCheckExisting(pulls, source, tgt) ==
    LET merges == SelectSeq(pulls, LAMBDA r : r.head = source /\ r.base = tgt)
    IN  IF Len(merges) > 0 THEN Some(AsReview(merges[1])) ELSE None

CheckExisting(b, pulls, source, tgt) ==
    IF b = "gitea" THEN GiteaCheckExisting(pulls, source, tgt)
    ELSE GitLabCheckExisting(pulls, source, tgt)

\* GiteaClient.update_review_status: current_draft
GiteaCurrentDraft(t) == StartsWith(t, "WIP: ")

\* GitLabClient.update_review_status: current_draft
GitLabCurrentDraft(t) == StartsWith(t, "[Draft] ")

CurrentDraft(b, t) == IF b = "gitea" THEN GiteaCurrentDraft(t) ELSE GitLabCurrentDraft(t)

\* a plausible slip: the early return dropped, every call writes
UpdateWritesAlways(b, t, draft) == TRUE

\* update_review_status: whether the call goes on to PATCH the title
UpdateWrites(b, t, draft) == draft /= CurrentDraft(b, t)

\* a plausible slip: the prefix left in place when the review is made ready
UpdateNewTitleNoStrip(b, t, draft) == IF draft THEN AddPrefix(t, DraftPrefix(b)) ELSE t

\* update_review_status: new_title
UpdateNewTitle(b, t, draft) ==
    IF draft THEN AddPrefix(t, DraftPrefix(b)) ELSE RemovePrefix(t, DraftPrefix(b))

\* create_review: the title sent
CreateTitle(b, t, draft) == IF draft THEN AddPrefix(t, DraftPrefix(b)) ELSE t

\* the number the platform gives the next review
NextNumber(pulls) ==
    1 + (CHOOSE m \in {0} \cup { pulls[i].number : i \in 1..Len(pulls) } :
             \A i \in 1..Len(pulls) : pulls[i].number <= m)

\* the platform stores a PATCHed title
WithTitle(pulls, n, t) ==
    [i \in 1..Len(pulls) |-> IF pulls[i].number = n THEN [pulls[i] EXCEPT !.title = t]
                             ELSE pulls[i]]

\* the caller goes on at next; "done" is its return
GoOn(next) ==
    IF next = "done" THEN Return
    ELSE pc' = next /\ UNCHANGED <<exit_code, error, failed>>

\* a plausible slip: the token check left out of the constructor
HasTokenAlways(token, configured) == TRUE

\* gitea_client.py 31-36: the token passed in, else the configured one, is there
HasToken(token, configured) == Truthy(token) \/ configured

\* the client constructor: _parse_remote_url, then the token lookup; cli.py passes
\* no token
NewClient(next) ==
    /\ Log(<<Call(ClientClass(backend), <<>>)>>)
    /\ parsed' = parse_remote_url(remote_url)
    /\ IF parsed' = ParseError THEN Raise("ValueError", "_parse_remote_url")
       ELSE IF ~HasToken(None, tokenSet) THEN Raise("ValueError", "token")
       ELSE GoOn(next)

\* update_review_status(review=rv, draft=draft): nothing to do when the title already
\* says so, else PATCH the new title and return the review the platform answers
update_review_status(rv, draft, next) ==
    LET call == Call("update_review_status", <<rv, draft>>)
    IN  IF ~UpdateWrites(backend, rv.title, draft)
        THEN /\ Log(<<call>>)
             /\ review' = Some(rv)
             /\ GoOn(next)
             /\ UNCHANGED reviews
        ELSE LET new_title == UpdateNewTitle(backend, rv.title, draft)
             IN  /\ Log(<<call, Call("http", <<"PATCH", rv.number, new_title>>)>>)
                 /\ \E resp \in Responses :
                      IF resp = "ok"
                      THEN /\ reviews' = WithTitle(reviews, rv.number, new_title)
                           /\ review' = Some([rv EXCEPT !.title = new_title])
                           /\ GoOn(next)
                      ELSE /\ Raise(APIError(backend), "update_review_status")
                           /\ UNCHANGED <<reviews, review>>

(***************************************************************************)
(* cli.py: run_review                                                      *)
(***************************************************************************)
\* a plausible slip: the dirty check dropped
BlocksOnDirtyNever(d) == FALSE

\* lines 19-25: uncommitted changes to tracked files stop the run
BlocksOnDirty(d) == d

\* lines 16-25: GitClient(), then the dirty tree check
run_review_start ==
    /\ pc = "run_review"
    /\ \E in_repo \in BOOLEAN :
         IF ~in_repo
         THEN Raise("ValueError", "GitClient") /\ UNCHANGED trace
         ELSE /\ Log(<<Call("has_uncommitted_changes", <<>>)>>)
              /\ IF BlocksOnDirty(dirty) THEN Raise("SystemExit", "has_uncommitted_changes")
                 ELSE pc' = "rr_resolve" /\ UNCHANGED <<exit_code, error, failed>>
    /\ UNCHANGED <<conf, parsed, repo, reviews, argv, locals, reported>>

\* a plausible slip: the default branch always taken as the target
ResolveTargetDefault(t, main) == main

\* line 30: target = target_branch or main_branch
ResolveTarget(t, main) == IF Truthy(t) THEN t[1] ELSE main

\* lines 27-35: the default branch, the current branch, the target
run_review_resolve ==
    /\ pc = "rr_resolve"
    /\ main_branch' = get_main_branch
    /\ current_branch' = get_current_branch
    /\ target' = ResolveTarget(target_branch, get_main_branch)
    /\ pc' = "rr_branch"
    /\ UNCHANGED <<conf, parsed, repo, reviews, argv, branch_name, current_to_reset,
                   existing_review, title, review, pr, trace, exit_code, error, failed,
                   reported>>

\* a plausible slip: a change branch made on every run
NeedsChangeBranchAlways(on_main, cur, tgt) == TRUE

\* line 37: on the default branch, or on the target branch
NeedsChangeBranch(on_main, cur, tgt) == on_main \/ cur = tgt

\* lines 37-44 and 52-57: a new change branch, or the current branch as it is
run_review_branch ==
    /\ pc = "rr_branch"
    /\ IF NeedsChangeBranch(is_on_main_branch, current_branch, target)
       THEN \E now \in Datetimes, ok \in BOOLEAN :
              LET name == ChangeBranchName(now)
              IN  /\ Log(<<Call("create_change_branch", <<>>),
                           Call("git.checkout", <<"-b", name>>)>>)
                  /\ IF ok /\ name \notin DOMAIN local
                     THEN /\ local' = (name :> local[head]) @@ local
                          /\ head' = name
                          /\ branch_name' = name
                          /\ pc' = "rr_checkout_vacated"
                          /\ UNCHANGED <<exit_code, error, failed>>
                     ELSE /\ Raise("GitCommandError", "create_change_branch")
                          /\ UNCHANGED <<local, head, branch_name>>
       ELSE /\ branch_name' = current_branch
            /\ pc' = "rr_push"
            /\ UNCHANGED <<local, head, trace, exit_code, error, failed>>
    /\ UNCHANGED <<conf, parsed, track, reviews, argv, main_branch, current_branch, target,
                   current_to_reset, existing_review, title, review, pr, reported>>

\* git_client.py 62-67, reset_main_to_origin: the git commands it runs on the
\* default branch main, in their order
reset_main_to_origin(main) ==
    << Call("git.checkout", <<main>>),
       Call("git.fetch", <<"origin", main, "--quiet">>),
       Call("git.reset", <<"--hard", "origin/" \o main>>) >>

\* line 46: main_branch if git_client.is_on_main_branch() else target
CurrentToReset(on_main, main, tgt) == IF on_main THEN main ELSE tgt

\* lines 46-47: check out the branch to reset
run_review_checkout_vacated ==
    /\ pc = "rr_checkout_vacated"
    /\ LET b == CurrentToReset(is_on_main_branch, main_branch, target)
       IN  /\ current_to_reset' = b
           /\ Log(<<Call("git.checkout", <<b>>)>>)
           /\ \E ok \in BOOLEAN :
                IF ok /\ b \in (DOMAIN local \cup DOMAIN track)
                THEN /\ head' = b
                     /\ local' = IF b \in DOMAIN local THEN local
                                 ELSE (b :> track[b]) @@ local
                     /\ pc' = "rr_reset"
                     /\ UNCHANGED <<exit_code, error, failed>>
                ELSE /\ Raise("GitCommandError", "git.checkout")
                     /\ UNCHANGED <<head, local>>
    /\ UNCHANGED <<conf, parsed, track, reviews, argv, main_branch, current_branch, target,
                   branch_name, existing_review, title, review, pr, reported>>

\* line 48: git reset --hard origin/<current_to_reset>
run_review_reset ==
    /\ pc = "rr_reset"
    /\ Log(<<Call("git.reset", <<"--hard", "origin/" \o current_to_reset>>)>>)
    /\ \E ok \in BOOLEAN :
         IF ok /\ current_to_reset \in DOMAIN track
         THEN /\ local' = [local EXCEPT ![head] = track[current_to_reset]]
              /\ pc' = "rr_checkout_change"
              /\ UNCHANGED <<exit_code, error, failed>>
         ELSE /\ Raise("GitCommandError", "git.reset")
              /\ UNCHANGED local
    /\ UNCHANGED <<conf, parsed, head, track, reviews, argv, locals, reported>>

\* line 51: back to the change branch
run_review_checkout_change ==
    /\ pc = "rr_checkout_change"
    /\ Log(<<Call("git.checkout", <<branch_name>>)>>)
    /\ \E ok \in BOOLEAN :
         IF ok
         THEN head' = branch_name /\ pc' = "rr_push" /\ UNCHANGED <<exit_code, error, failed>>
         ELSE Raise("GitCommandError", "git.checkout") /\ UNCHANGED head
    /\ UNCHANGED <<conf, parsed, local, track, reviews, argv, locals, reported>>

\* a plausible slip: a failed push tried again
AfterPushRetries(ok) == IF ok THEN "rr_construct" ELSE "rr_push"

\* a plausible slip: a failed push logged and the run carried on
AfterPushCarriesOn(ok) == "rr_construct"

\* lines 60-65: where the run goes after the push
AfterPush(ok) == IF ok THEN "rr_construct" ELSE "done"

\* lines 59-65: push the branch; a failed push exits at once
run_review_push ==
    /\ pc = "rr_push"
    /\ Log(<<Call("push_branch", <<branch_name>>),
             Call("git.push", PushArgs(branch_name, TRUE, TRUE))>>)
    /\ \E ok \in BOOLEAN :
         /\ track' = IF ok THEN (branch_name :> local[branch_name]) @@ track ELSE track
         /\ IF AfterPush(ok) = "done"
            THEN /\ pc' = "done"
                 /\ exit_code' = 1
                 /\ error' = "SystemExit"
            ELSE /\ pc' = AfterPush(ok)
                 /\ UNCHANGED <<exit_code, error>>
         /\ failed' = IF ok THEN "" ELSE "push_branch"
    /\ UNCHANGED <<conf, parsed, head, local, reviews, argv, locals, reported>>

\* lines 67-70: the hosting client of the platform
run_review_construct ==
    /\ pc = "rr_construct"
    /\ NewClient("rr_check")
    /\ UNCHANGED <<conf, repo, reviews, argv, locals, reported>>

\* a plausible slip: the review created whatever the check returned
AfterCheckCreates(existing) == "rr_title"

\* lines 75 and 86: an existing review is reported, without one a review is created
AfterCheck(existing) == IF existing /= None THEN "rr_existing" ELSE "rr_title"

\* lines 72-73: ask the platform for an open review of the branch
run_review_check ==
    /\ pc = "rr_check"
    /\ Log(<<Call("check_existing_review", <<branch_name, target>>)>>)
    /\ \E resp \in Responses :
         IF resp = "ok"
         THEN /\ existing_review' = CheckExisting(backend, reviews, branch_name, target)
              /\ pc' = AfterCheck(existing_review')
              /\ UNCHANGED <<exit_code, error, failed>>
         ELSE /\ Raise(APIError(backend), "check_existing_review")
              /\ UNCHANGED existing_review
    /\ UNCHANGED <<conf, parsed, repo, reviews, argv, main_branch, current_branch, target,
                   branch_name, current_to_reset, title, review, pr, reported>>

\* a plausible slip: the existing review updated whatever the flags
UpdatesExistingAlways(w, r) == TRUE

\* line 78: an existing review is touched only when --wip or --ready is given
UpdatesExisting(w, r) == ~(~w /\ ~r)

\* a plausible slip: the review always marked as a draft
UpdateDraftArgTrue(w, r) == TRUE

\* line 82: draft=wip
UpdateDraftArg(w, r) == w

\* lines 75-84: the review exists: report it, and update its status when asked
run_review_existing ==
    /\ pc = "rr_existing"
    /\ reported' = Append(reported, existing_review[1].url)
    /\ IF ~UpdatesExisting(wip, ready)
       THEN /\ Return
            /\ UNCHANGED <<trace, reviews, review>>
       ELSE update_review_status(existing_review[1], UpdateDraftArg(wip, ready), "done")
    /\ UNCHANGED <<conf, parsed, repo, argv, main_branch, current_branch, target, branch_name,
                   current_to_reset, existing_review, title, pr>>

\* line 88: the title prompt; a dismissed prompt exits
run_review_title ==
    /\ pc = "rr_title"
    /\ Log(<<Call("get_pr_title", <<>>)>>)
    /\ \E answer \in {None} \cup { Some(t) : t \in PromptTitles } :
         IF answer = None
         THEN Raise("SystemExit", "get_pr_title") /\ UNCHANGED title
         ELSE title' = answer[1] /\ pc' = "rr_description" /\ UNCHANGED <<exit_code, error, failed>>
    /\ UNCHANGED <<conf, parsed, repo, reviews, argv, main_branch, current_branch, target,
                   branch_name, current_to_reset, existing_review, review, pr, reported>>

\* lines 91-92: the description, edited from the last commit message; an empty one exits
run_review_description ==
    /\ pc = "rr_description"
    /\ Log(<<Call("get_pr_description", <<>>)>>)
    /\ \E description \in { "", "body" } :
         IF description = ""
         THEN Raise("SystemExit", "get_pr_description")
         ELSE pc' = "rr_create" /\ UNCHANGED <<exit_code, error, failed>>
    /\ UNCHANGED <<conf, parsed, repo, reviews, argv, locals, reported>>

\* line 103: draft=wip
CreateDraftArg(w) == w

\* line 101: source_branch=branch_name
CreateSource(pushed, cur) == pushed

\* lines 94-106: create the review and report its URL
run_review_create ==
    /\ pc = "rr_create"
    /\ LET draft == CreateDraftArg(wip)
           source == CreateSource(branch_name, current_branch)
           sent == CreateTitle(backend, title, draft)
           made == Rev(NextNumber(reviews), sent, source, target)
       IN  /\ Log(<<Call("create_review", <<title, source, target, draft>>),
                    Call("http", <<"POST", sent, source, target>>)>>)
           /\ \E resp \in Responses :
                IF resp = "ok"
                THEN /\ reviews' = Append(reviews, made)
                     /\ review' = Some(AsReview(made))
                     /\ reported' = Append(reported, made.url)
                     /\ Return
                ELSE /\ Raise(APIError(backend), "create_review")
                     /\ UNCHANGED <<reviews, review, reported>>
    /\ UNCHANGED <<conf, parsed, repo, argv, main_branch, current_branch, target, branch_name,
                   current_to_reset, existing_review, title, pr>>

(***************************************************************************)
(* cli.py: download_review                                                 *)
(***************************************************************************)
\* the source branches the platform may report for a pull request
DetailBranches == { "", "develop", "feature/y" }

\* ReviewDetail(...) as get_review builds it from the platform's answer
Detail(n, source) ==
    [number |-> n, title |-> "fix/z",
     url |-> "https://example.com/pulls/" \o ToString(n),
     source_branch |-> source, target_branch |-> "main"]

\* lines 120-129: GitClient(), then the dirty tree check
download_review_start ==
    /\ pc = "download_review"
    /\ \E in_repo \in BOOLEAN :
         IF ~in_repo
         THEN Raise("ValueError", "GitClient") /\ UNCHANGED trace
         ELSE /\ Log(<<Call("has_uncommitted_changes", <<>>)>>)
              /\ IF BlocksOnDirty(dirty) THEN Raise("SystemExit", "has_uncommitted_changes")
                 ELSE pc' = "dl_construct" /\ UNCHANGED <<exit_code, error, failed>>
    /\ UNCHANGED <<conf, parsed, repo, reviews, argv, locals, reported>>

\* lines 131-134: the hosting client of the platform
download_review_construct ==
    /\ pc = "dl_construct"
    /\ NewClient("dl_get")
    /\ UNCHANGED <<conf, repo, reviews, argv, locals, reported>>

\* a plausible slip: the empty source branch let through
HasSourceBranchAlways(d) == TRUE

\* line 139: not pr.source_branch
HasSourceBranch(d) == d.source_branch /= ""

\* lines 136-141: fetch the review; without a source branch there is nothing to check out
download_review_get ==
    /\ pc = "dl_get"
    /\ Log(<<Call("get_review", <<download[1]>>)>>)
    /\ \E resp \in Responses :
         IF resp = "ok"
         THEN \E source \in DetailBranches :
                /\ pr' = Some(Detail(download[1], source))
                /\ IF HasSourceBranch(pr'[1])
                   THEN pc' = "dl_fetch" /\ UNCHANGED <<exit_code, error, failed>>
                   ELSE Raise("SystemExit", "source_branch")
         ELSE Raise(APIError(backend), "get_review") /\ UNCHANGED pr
    /\ UNCHANGED <<conf, parsed, repo, reviews, argv, main_branch, current_branch, target,
                   branch_name, current_to_reset, existing_review, title, review,
                   reported>>

\* a plausible slip: the reset made on a branch that was just created too
CheckoutAfterFetchResets(name, exists) ==
    <<Call("git.checkout", IF exists THEN <<name>> ELSE <<"-b", name, "origin/" \o name>>),
      Call("git.reset", <<"--hard", "origin/" \o name>>)>>

\* GitClient.fetch_and_checkout_branch, after the fetch: an existing local branch is
\* checked out and reset to origin/<name>, a new one is created from origin/<name>
CheckoutAfterFetch(name, exists) ==
    IF exists
    THEN <<Call("git.checkout", <<name>>), Call("git.reset", <<"--hard", "origin/" \o name>>)>>
    ELSE <<Call("git.checkout", <<"-b", name, "origin/" \o name>>)>>

\* GitClient.fetch_and_checkout_branch: fetch, then check out the local branch and
\* reset it to origin/<name>, or create it from origin/<name>
fetch_and_checkout_branch(name) ==
    \E fetched \in BOOLEAN :
      IF ~fetched
      THEN /\ Log(<<Call("fetch_and_checkout_branch", <<name>>),
                    Call("git.fetch", <<"origin", name>>)>>)
           /\ Raise("ValueError", "fetch_and_checkout_branch")
           /\ UNCHANGED repo
      ELSE /\ track' = IF name \in DOMAIN track THEN track ELSE (name :> 0) @@ track
           /\ head' = name
           /\ local' = IF name \in DOMAIN local
                       THEN [local EXCEPT ![name] = track'[name]]
                       ELSE (name :> track'[name]) @@ local
           /\ Log(<<Call("fetch_and_checkout_branch", <<name>>),
                    Call("git.fetch", <<"origin", name>>)>>
                  \o CheckoutAfterFetch(name, name \in DOMAIN local))
           /\ Return

\* lines 143-148: check out the review's branch
download_review_fetch ==
    /\ pc = "dl_fetch"
    /\ fetch_and_checkout_branch(pr[1].source_branch)
    /\ UNCHANGED <<conf, parsed, reviews, argv, locals, reported>>

(***************************************************************************)
(* cli.py: list_reviews                                                    *)
(***************************************************************************)
\* lines 162-169: GitClient(), then the branch to list
list_reviews_start ==
    /\ pc = "list_reviews"
    /\ \E in_repo \in BOOLEAN :
         IF ~in_repo
         THEN Raise("ValueError", "GitClient") /\ UNCHANGED target
         ELSE /\ target' = IF target_branch = None \/ target_branch[1] = ""
                           THEN get_main_branch ELSE target_branch[1]
              /\ pc' = "ls_construct"
              /\ UNCHANGED <<exit_code, error, failed>>
    /\ UNCHANGED <<conf, parsed, repo, reviews, argv, main_branch, current_branch, branch_name,
                   current_to_reset, existing_review, title, review, pr, trace,
                   reported>>

\* lines 171-174: the hosting client of the platform
list_reviews_construct ==
    /\ pc = "ls_construct"
    /\ NewClient("ls_list")
    /\ UNCHANGED <<conf, repo, reviews, argv, locals, reported>>

\* lines 176-177: list the open reviews of the branch and print them
list_reviews_list ==
    /\ pc = "ls_list"
    /\ \E resp \in Responses :
         IF resp = "ok"
         THEN /\ Log(<<Call("vcs_client.list_reviews", <<target>>),
                       Call("display_reviews_table", <<target>>)>>)
              /\ Return
         ELSE /\ Log(<<Call("vcs_client.list_reviews", <<target>>)>>)
              /\ Raise(APIError(backend), "list_reviews")
    /\ UNCHANGED <<conf, parsed, repo, reviews, argv, locals, reported>>

(***************************************************************************)
(* The program.                                                            *)
(***************************************************************************)
Next ==
    \/ handle_review
    \/ run_review_start
    \/ run_review_resolve
    \/ run_review_branch
    \/ run_review_checkout_vacated
    \/ run_review_reset
    \/ run_review_checkout_change
    \/ run_review_push
    \/ run_review_construct
    \/ run_review_check
    \/ run_review_existing
    \/ run_review_title
    \/ run_review_description
    \/ run_review_create
    \/ download_review_start
    \/ download_review_construct
    \/ download_review_get
    \/ download_review_fetch
    \/ list_reviews_start
    \/ list_reviews_construct
    \/ list_reviews_list

Spec == Init /\ [][Next]_vars

(***************************************************************************)
(* update_review_status applied again and again to one review.             *)
(***************************************************************************)
\* The largest number of update_review_status calls in a row.
MaxUpdates == 3

\* the titles a review may carry
EdgeTitles ==
    { "fix/a", "WIP: fix/a", "WIP: WIP: fix/a", "WIP:fix/a", "WIP: ", "",
      "wip: fix/a", "fix WIP: a", "[Draft] fix/a", "[Draft] [Draft] fix/a",
      "[Draft]", "WIP: [Draft] fix/a" }

InitUpdate ==
    /\ dirty = FALSE
    /\ head = "change/20240101120000"
    /\ local = [b \in StartBranches |-> 0]
    /\ track = [b \in StartBranches |-> 0]
    /\ originHead = Some("refs/remotes/origin/main")
    /\ tokenSet = TRUE
    /\ remote_url = Some("git@gitea.example.com:o/r.git")
    /\ parsed = parse_remote_url(remote_url)
    /\ \E t \in EdgeTitles :
         /\ reviews = <<Rev(1, t, "change/20240101120000", "main")>>
         /\ review = Some(AsReview(reviews[1]))
    /\ backend \in Backends
    /\ target_branch = None /\ download = None /\ list = FALSE
    /\ wip = FALSE /\ ready = FALSE
    /\ pc = "update"
    /\ main_branch = "main" /\ current_branch = head /\ target = "main"
    /\ branch_name = head /\ current_to_reset = ""
    /\ existing_review = review /\ title = "" /\ pr = None
    /\ trace = <<>>
    /\ exit_code = -1
    /\ error = ""
    /\ failed = ""
    /\ reported = <<>>

\* one more update_review_status call on the review the last call returned
update_again ==
    /\ pc = "update"
    /\ Count("update_review_status") < MaxUpdates
    /\ \E draft \in BOOLEAN : update_review_status(review[1], draft, "update")
    /\ UNCHANGED <<conf, parsed, repo, argv, main_branch, current_branch, target, branch_name,
                   current_to_reset, existing_review, title, pr, reported>>

NextUpdate == update_again

SpecUpdate == InitUpdate /\ [][NextUpdate]_vars

(***************************************************************************)
(* _parse_remote_url applied to the remotes a repository may have.         *)
(***************************************************************************)
ParseHosts == { "gitea.example.com", "my.gitlab.com" }

\* hosts of a scheme://... remote: a name, a name with a label in git, an IPv6
\* literal
UrlHosts == ParseHosts \cup { "[2001:db8::1]" }

ParsePaths == { "o/r", "g1/g2/r", "o/site.github.io", "r", "/r" }

ParseSuffixes == { ".git", "", "/" }

ParseSchemes == { "https", "http", "ssh" }

ParseUsers == { "", "git@", "user:pw@" }

ParsePorts == { "", ":2222" }

\* git@H:P<suffix>
ScpUrl(H, P, X) == "git@" \o H \o ":" \o P \o X

\* the git@ form without the colon
NoColonUrl(H, P, X) == "git@" \o H \o "/" \o P \o X

\* scheme://[user@]H[:port]/P<suffix>
SchemeUrl(S, U, H, Pt, P, X) == S \o "://" \o U \o H \o Pt \o "/" \o P \o X

ScpUrls == { ScpUrl(H, P, X) : H \in ParseHosts, P \in ParsePaths, X \in ParseSuffixes }

NoColonUrls ==
    { NoColonUrl(H, P, X) : H \in ParseHosts, P \in ParsePaths, X \in ParseSuffixes }

SchemeUrls ==
    { SchemeUrl(S, U, H, Pt, P, X) :
        S \in ParseSchemes, U \in ParseUsers, H \in UrlHosts, Pt \in ParsePorts,
        P \in ParsePaths, X \in ParseSuffixes }

InitParse ==
    /\ dirty = FALSE
    /\ head = "main"
    /\ local = [b \in StartBranches |-> 0]
    /\ track = [b \in StartBranches |-> 0]
    /\ originHead = Some("refs/remotes/origin/main")
    /\ tokenSet = TRUE
    /\ remote_url \in { None } \cup { Some(u) : u \in ScpUrls \cup NoColonUrls \cup SchemeUrls }
    /\ parsed = None
    /\ reviews = <<>>
    /\ backend \in Backends
    /\ target_branch = None /\ download = None /\ list = FALSE
    /\ wip = FALSE /\ ready = FALSE
    /\ pc = "parse"
    /\ main_branch = "" /\ current_branch = "" /\ target = ""
    /\ branch_name = "" /\ current_to_reset = ""
    /\ existing_review = None /\ title = "" /\ review = None /\ pr = None
    /\ trace = <<>>
    /\ exit_code = -1
    /\ error = ""
    /\ failed = ""
    /\ reported = <<>>

\* a hosting client is constructed on the repository
construct_client ==
    /\ pc = "parse"
    /\ NewClient("done")
    /\ UNCHANGED <<conf, repo, reviews, argv, locals, reported>>

NextParse == construct_client

SpecParse == InitParse /\ [][NextParse]_vars

(***************************************************************************)
(* The operations of a hosting client called one after another, against a  *)
(* platform that lists its open reviews in an order of its own.            *)
(***************************************************************************)
\* The largest number of client calls in a row.
MaxAdapterCalls == 2

AdapterSources == { "change/20240101120000", "feature/x" }

AdapterTargets == { "main", "develop" }

\* what a GET of the open reviews may come back with: the list, an empty body,
\* an empty JSON object, a JSON object with members, an HTTP error status, no answer
CheckResponses == { "list", "none", "empty_object", "object", "http_error", "transport_error" }

\* the platform puts a new review at place at + 1 of its listing
InsertAt(pulls, at, r) == SubSeq(pulls, 1, at) \o <<r>> \o SubSeq(pulls, at + 1, Len(pulls))

\* the platform holds an open review of the same source and target
HasOpen(pulls, source, tgt) ==
    \E i \in 1..Len(pulls) : pulls[i].head = source /\ pulls[i].base = tgt

\* check_existing_review on an answer of the platform: the value returned, or the
\* API error raised (gitea_client.py 85-101, gitlab_client.py 88-100)
CheckOutcome(b, resp, pulls, source, tgt) ==
    IF resp = "list" THEN <<"return", CheckExisting(b, pulls, source, tgt)>>
    ELSE IF resp = "empty_object" THEN <<"return", None>>
    ELSE <<"raise", APIError(b)>>

AdapterCalls == Count("create_review") + Count("check_existing_review")

InitAdapter ==
    /\ dirty = FALSE
    /\ head = "change/20240101120000"
    /\ local = [b \in StartBranches |-> 0]
    /\ track = [b \in StartBranches |-> 0]
    /\ originHead = Some("refs/remotes/origin/main")
    /\ tokenSet = TRUE
    /\ remote_url = Some("git@gitea.example.com:o/r.git")
    /\ parsed = parse_remote_url(remote_url)
    /\ reviews \in SeqsNoDup(StartReviews, MaxReviews)
    /\ backend \in Backends
    /\ target_branch = None /\ download = None /\ list = FALSE
    /\ wip = FALSE /\ ready = FALSE
    /\ pc = "adapter"
    /\ main_branch = "main" /\ current_branch = head /\ target = "main"
    /\ branch_name = head /\ current_to_reset = ""
    /\ existing_review = None /\ title = "" /\ review = None /\ pr = None
    /\ trace = <<>>
    /\ exit_code = -1
    /\ error = ""
    /\ failed = ""
    /\ reported = <<>>

\* client.create_review(title, description, source, tgt, draft): the platform takes
\* the review unless it holds an open one of the same source and target
adapter_create ==
    /\ pc = "adapter"
    /\ AdapterCalls < MaxAdapterCalls
    /\ \E t \in PromptTitles, source \in AdapterSources, tgt \in AdapterTargets,
          draft \in BOOLEAN, resp \in Responses :
         LET sent == CreateTitle(backend, t, draft)
             made == Rev(NextNumber(reviews), sent, source, tgt)
             call == Call("create_review", <<t, source, tgt, draft>>)
         IN  IF resp = "ok" /\ ~HasOpen(reviews, source, tgt)
             THEN \E at \in 0..Len(reviews) :
                    /\ reviews' = InsertAt(reviews, at, made)
                    /\ review' = Some(AsReview(made))
                    /\ Log(<<call, Call("return", <<review'>>)>>)
             ELSE /\ Log(<<call, Call("raise", <<APIError(backend)>>)>>)
                  /\ UNCHANGED <<reviews, review>>
    /\ UNCHANGED <<conf, parsed, repo, argv, pc, main_branch, current_branch, target,
                   branch_name, current_to_reset, existing_review, title, pr, exit_code,
                   error, failed, reported>>

\* client.check_existing_review(source, tgt)
adapter_check ==
    /\ pc = "adapter"
    /\ AdapterCalls < MaxAdapterCalls
    /\ \E source \in AdapterSources, tgt \in AdapterTargets, resp \in CheckResponses :
         LET out == CheckOutcome(backend, resp, reviews, source, tgt)
         IN  /\ Log(<<Call("check_existing_review", <<source, tgt>>),
                      Call("response", <<resp>>),
                      Call(out[1], <<out[2]>>)>>)
             /\ existing_review' = IF out[1] = "return" THEN out[2] ELSE existing_review
    /\ UNCHANGED <<conf, parsed, repo, reviews, argv, pc, main_branch, current_branch,
                   target, branch_name, current_to_reset, title, review, pr, exit_code,
                   error, failed, reported>>

NextAdapter == adapter_create \/ adapter_check

SpecAdapter == InitAdapter /\ [][NextAdapter]_vars

(***************************************************************************)
(* Submit run again: a later run of the same command line in the same     *)
(* repository, on the platform as the earlier runs left it.                *)
(***************************************************************************)
MaxRuns == 2

\* the open reviews of the platform before the first run: none, one, or the two of
\* one source branch in either order
RepeatReviews ==
    { r \in SeqsNoDup(StartReviews, 2) :
        Len(r) = 2 => r[1].head = r[2].head }

\* what a new run keeps of the trace: where the earlier runs started and the
\* create_review calls they made
Earlier(t) == SelectSeq(t, LAMBDA e : e.op \in { "run_review", "create_review" })

InitRepeat ==
    /\ dirty = FALSE
    /\ head \in StartBranches
    /\ local = [b \in StartBranches |-> IF b = head THEN 1 ELSE 0]
    /\ track = [b \in StartBranches |-> 0]
    /\ originHead = Some("refs/remotes/origin/main")
    /\ tokenSet = TRUE
    /\ remote_url = Some("git@gitea.example.com:o/r.git")
    /\ parsed = None
    /\ reviews \in RepeatReviews
    /\ backend \in Backends
    /\ target_branch \in TargetArgs
    /\ download = None
    /\ list = FALSE
    /\ wip \in BOOLEAN
    /\ ready \in BOOLEAN
    /\ pc = "handle_review"
    /\ main_branch = "" /\ current_branch = "" /\ target = ""
    /\ branch_name = "" /\ current_to_reset = ""
    /\ existing_review = None /\ title = "" /\ review = None /\ pr = None
    /\ trace = <<>>
    /\ exit_code = -1
    /\ error = ""
    /\ failed = ""
    /\ reported = <<>>

\* the command is run again with the same platform and target, with --wip, --ready
\* or neither: a new process, on the repository and the platform as they are
submit_again ==
    /\ pc = "done"
    /\ Called("run_review")
    /\ Count("run_review") < MaxRuns
    /\ pc' = "handle_review"
    /\ \E w, r \in BOOLEAN : ~(w /\ r) /\ wip' = w /\ ready' = r
    /\ main_branch' = "" /\ current_branch' = "" /\ target' = ""
    /\ branch_name' = "" /\ current_to_reset' = ""
    /\ existing_review' = None /\ title' = "" /\ review' = None /\ pr' = None
    /\ parsed' = None
    /\ exit_code' = -1
    /\ error' = ""
    /\ failed' = ""
    /\ reported' = <<>>
    /\ trace' = Earlier(trace)
    /\ UNCHANGED <<conf, repo, reviews, backend, target_branch, download, list>>

NextRepeat ==
    \/ handle_review
    \/ run_review_start
    \/ run_review_resolve
    \/ run_review_branch
    \/ run_review_checkout_vacated
    \/ run_review_reset
    \/ run_review_checkout_change
    \/ run_review_push
    \/ run_review_construct
    \/ run_review_check
    \/ run_review_existing
    \/ run_review_title
    \/ run_review_description
    \/ run_review_create
    \/ submit_again

SpecRepeat == InitRepeat /\ [][NextRepeat]_vars

(***************************************************************************)
(* What is checked.                                                        *)
(***************************************************************************)
Done == pc = "done"

\* the run is a submit run (run_review was entered)
Submit == Called("run_review")

\* the run has read the branches (lines 27-30 are behind it)
Resolved == Submit /\ main_branch /= ""

\* the hosting operations of a run
HostingOps == { "check_existing_review", "create_review", "update_review_status",
                "get_review", "vcs_client.list_reviews" }

NoHostingCall == \A i \in 1..Len(trace) : trace[i].op \notin HostingOps

ClientsBuilt == Count("GiteaClient") + Count("GitLabClient")

\* C1: a submit run on a dirty tree never gets past the dirty check: it ends with
\* exit status 1, and push_branch, create_change_branch and the hosting operations
\* are never called.
C1_DirtySubmitExits ==
    (Submit /\ dirty) =>
        /\ pc \in { "run_review", "done" }
        /\ (Done => exit_code = 1)
        /\ Count("push_branch") = 0
        /\ Count("git.push") = 0
        /\ Count("create_change_branch") = 0
        /\ ClientsBuilt = 0
        /\ NoHostingCall

C1_Witness ==
    /\ Submit /\ dirty /\ Done
    /\ failed = "has_uncommitted_changes"
    /\ exit_code = 1

\* a hard reset to origin/<b> is in the trace before the first push
ResetBeforePush(b) ==
    \E i \in 1..Len(trace) :
        /\ trace[i].op = "git.reset"
        /\ trace[i].args = <<"--hard", "origin/" \o b>>
        /\ i < FirstIdx("git.push")

\* C2: a submit run started on the default branch with a clean tree makes exactly
\* one create_change_branch call, and has hard-reset the default branch to
\* origin/<default branch> by the time the change branch is pushed, whatever the
\* target_branch argument.
C2_DefaultBranchResetBeforePush ==
    (Resolved /\ ~dirty /\ current_branch = main_branch) =>
        /\ (pc /= "rr_branch" => Count("create_change_branch") = 1)
        /\ (Called("git.push") => ResetBeforePush(main_branch))

\* the run left the default branch for a new change branch, was given another
\* target, and pushed without a reset of the default branch
C2_Witness ==
    /\ Resolved /\ ~dirty /\ current_branch = main_branch
    /\ target /= main_branch
    /\ Count("create_change_branch") = 1
    /\ Called("git.push")
    /\ ~ResetBeforePush(main_branch)
    /\ ResetBeforePush(target)

\* C3: a failed push ends the run with exit status 1 before any hosting client is
\* built and before any hosting operation is called.
C3_PushFailureExits ==
    (failed = "push_branch") =>
        /\ Done
        /\ exit_code = 1
        /\ ClientsBuilt = 0
        /\ NoHostingCall

C3_Witness ==
    /\ failed = "push_branch"
    /\ Done
    /\ Count("git.push") = 1

\* C4: with an existing review and neither --wip nor --ready, the run returns
\* normally without create_review, without update_review_status, without a write
\* to the platform and without a prompt.
C4_ExistingReviewUntouched ==
    (Submit /\ existing_review /= None /\ ~wip /\ ~ready) =>
        /\ pc \in { "rr_existing", "done" }
        /\ (Done => exit_code = 0)
        /\ Count("create_review") = 0
        /\ Count("update_review_status") = 0
        /\ Count("http") = 0
        /\ Count("get_pr_title") = 0
        /\ Count("get_pr_description") = 0

C4_Witness ==
    /\ Submit /\ existing_review /= None /\ ~wip /\ ~ready
    /\ Done /\ exit_code = 0
    /\ reported = <<existing_review[1].url>>

\* C5: with an existing review and --wip or --ready, the run makes exactly one
\* update_review_status call, on that review, with draft true iff --wip was given
\* (so draft is false with --ready), and no create_review call.
C5_ExistingReviewUpdated ==
    (Submit /\ existing_review /= None /\ (wip \/ ready) /\ Done) =>
        /\ Count("update_review_status") = 1
        /\ Calls("update_review_status")[1].args = <<existing_review[1], wip>>
        /\ (ready => Calls("update_review_status")[1].args[2] = FALSE)
        /\ Count("create_review") = 0

C5_Witness ==
    /\ Submit /\ existing_review /= None /\ ready /\ Done
    /\ Count("update_review_status") = 1
    /\ Count("http") = 1

\* check_existing_review answered that there is no open review
CheckedNone ==
    /\ Submit
    /\ Called("check_existing_review")
    /\ failed /= "check_existing_review"
    /\ existing_review = None

\* the branch the run pushed
PushedBranch == Calls("push_branch")[1].args[1]

\* the explicit target argument if one is given (an empty one is none), else the
\* default branch
ExpectedTarget ==
    IF target_branch = None \/ target_branch = Some("") THEN main_branch
    ELSE target_branch[1]

\* the one create_review call carries the pushed branch, the resolved target and
\* draft = wip
CreateCallAsClaimed ==
    /\ Count("create_review") = 1
    /\ Calls("create_review")[1].args = <<title, PushedBranch, ExpectedTarget, wip>>

\* the prompts that stand between the check and create_review were not completed
PromptAborted == failed \in { "get_pr_title", "get_pr_description" }

\* C6 as stated: whenever check_existing_review returns no review, exactly one
\* create_review call is made, with the pushed branch as source, the resolved
\* target and draft = wip; no update_review_status call is made and the URL
\* reported is the one create_review returned.
C6_Original ==
    (CheckedNone /\ Done) =>
        /\ CreateCallAsClaimed
        /\ Count("update_review_status") = 0
        /\ (review /= None => reported = <<review[1].url>>)

\* C6, amended: when check_existing_review returns no review and the title prompt
\* is answered and the description is not empty, exactly one create_review call is
\* made, with the pushed branch as source, the resolved target and draft = wip; when
\* a prompt is dismissed or the description is empty the run exits 1 without a
\* create_review call.  Either way no update_review_status call is made, and a run
\* that returns reports the URL create_review returned.
C6_CreateWhenNoneExists ==
    (CheckedNone /\ Done) =>
        /\ Count("update_review_status") = 0
        /\ IF PromptAborted
           THEN Count("create_review") = 0 /\ exit_code = 1
           ELSE CreateCallAsClaimed
        /\ (exit_code = 0 <=> review /= None)
        /\ (review /= None => reported = <<review[1].url>>)

C6_Witness ==
    /\ CheckedNone /\ Done /\ exit_code = 0
    /\ target_branch = Some("develop")
    /\ wip
    /\ Calls("create_review")[1].args[3] = "develop"
    /\ Calls("create_review")[1].args[4] = TRUE

Digits == { "0", "1", "2", "3", "4", "5", "6", "7", "8", "9" }

\* change/<14 digits>
IsTimestampBranch(b) ==
    /\ Len(b) = Len("change/") + 14
    /\ StartsWith(b, "change/")
    /\ \A i \in (Len("change/") + 1)..Len(b) : SubSeq(b, i, i) \in Digits

\* every push is one git push -u origin <branch> --quiet --force-with-lease of the
\* branch of the run
PushedOnceWithLease ==
    Called("push_branch") =>
        /\ Count("push_branch") = 1
        /\ Count("git.push") = 1
        /\ Calls("push_branch")[1].args = <<branch_name>>
        /\ Calls("git.push")[1].args =
               <<"-u", "origin", branch_name, "--quiet", "--force-with-lease">>

\* the run started on the default branch with a clean tree and found no review
CleanDefaultNoReview ==
    /\ Resolved /\ ~dirty /\ current_branch = main_branch
    /\ CheckedNone /\ Done

\* exactly one branch was made, and it is the timestamped branch of the run
OneChangeBranch ==
    /\ DOMAIN local \ StartBranches = { branch_name }
    /\ IsTimestampBranch(branch_name)
    /\ Count("create_change_branch") = 1

\* C7 as stated: every submit run that reaches the push pushes one branch once, to
\* origin, with -u and --force-with-lease; from a clean default branch with no
\* existing review there are exactly one new branch change/<14 digits>, one push
\* and one create_review.
C7_Original ==
    /\ (Submit => PushedOnceWithLease)
    /\ (CleanDefaultNoReview =>
            OneChangeBranch /\ Count("git.push") = 1 /\ Count("create_review") = 1)

\* C7, amended: every submit run that reaches the push pushes one branch once, to
\* origin, with -u and --force-with-lease; from a clean default branch with no
\* existing review there are exactly one new branch change/<14 digits>, one push,
\* and one create_review unless a prompt is dismissed or the description is empty
\* (then none).
C7_OnePushWithLease ==
    /\ (Submit => PushedOnceWithLease)
    /\ (CleanDefaultNoReview =>
            /\ OneChangeBranch
            /\ Count("git.push") = 1
            /\ Count("create_review") = (IF PromptAborted THEN 0 ELSE 1))

C7_Witness ==
    /\ CleanDefaultNoReview
    /\ exit_code = 0
    /\ branch_name = "change/20261103060559"
    /\ Count("create_review") = 1

Download == Called("download_review")

\* C8: download never calls fetch_and_checkout_branch on a dirty tree (get_review
\* is not called either) or when the detail has an empty source_branch, and both
\* exit with status 1; otherwise it calls fetch_and_checkout_branch once, with the
\* detail's source_branch, after get_review(id).
C8_DownloadGuards ==
    Download =>
        /\ dirty =>
             /\ Count("get_review") = 0
             /\ Count("fetch_and_checkout_branch") = 0
             /\ (Done => exit_code = 1)
             /\ pc \in { "download_review", "done" }
        /\ (pr /= None /\ pr[1].source_branch = "") =>
             /\ Count("fetch_and_checkout_branch") = 0
             /\ Done /\ exit_code = 1
        /\ (~dirty /\ pr /= None /\ pr[1].source_branch /= "" /\ Done) =>
             /\ Count("fetch_and_checkout_branch") = 1
             /\ Calls("fetch_and_checkout_branch")[1].args = <<pr[1].source_branch>>
             /\ Count("get_review") = 1
             /\ Calls("get_review")[1].args = <<download[1]>>
             /\ FirstIdx("get_review") < FirstIdx("fetch_and_checkout_branch")
        /\ Called("fetch_and_checkout_branch") => (~dirty /\ pr /= None)

C8_Witness ==
    /\ Download /\ ~dirty
    /\ pr /= None
    /\ pr[1].source_branch = ""
    /\ Done /\ exit_code = 1

\* the i-th entry of the trace is an update_review_status call that asks for the
\* draft state the review's title already shows
SameStateUpdate(i) ==
    /\ trace[i].op = "update_review_status"
    /\ trace[i].args[2] = StartsWith(trace[i].args[1].title, DraftPrefix(backend))

\* C9: update_review_status(review, draft) with draft equal to the review's current
\* draft state returns the review it was given, title unchanged, and sends no
\* PATCH, however often it is applied.
C9_UpdateSameStateIsNoOp ==
    \A i \in 1..Len(trace) :
        SameStateUpdate(i) =>
            /\ (i < Len(trace) =>
                    /\ trace[i + 1].op = "update_review_status"
                    /\ trace[i + 1].args[1] = trace[i].args[1])
            /\ (i = Len(trace) =>
                    /\ review = Some(trace[i].args[1])
                    /\ reviews[1].title = trace[i].args[1].title
                    /\ error = "")

C9_Witness ==
    /\ Len(trace) = 3
    /\ \A i \in 1..3 : SameStateUpdate(i) /\ trace[i].args[2] = TRUE
    /\ review[1].title = "WIP: fix/a"
    /\ backend = "gitea"

UseCases == { "run_review", "download_review", "list_reviews" }

UseCasesEntered == Len(SelectSeq(trace, LAMBDA e : e.op \in UseCases))

\* C10: handle_review either raises a usage error and enters no use case, or enters
\* exactly one: download_review iff --download is given (without --list),
\* list_reviews iff --list is set (without --download), run_review iff neither;
\* --download with --list is a usage error.
C10_ExactlyOneMode ==
    pc /= "handle_review" =>
        /\ (error = "UsageError" => UseCasesEntered = 0 /\ exit_code = 2)
        /\ (error /= "UsageError" =>
                /\ UseCasesEntered = 1
                /\ (Called("download_review") <=> (download /= None /\ ~list))
                /\ (Called("list_reviews") <=> (list /\ download = None))
                /\ (Called("run_review") <=> (download = None /\ ~list)))
        /\ ((download /= None /\ list) => error = "UsageError")

C10_Witness ==
    /\ Called("download_review")
    /\ download = Some(0)
    /\ UseCasesEntered = 1

\* the flag combinations handle_review is to reject
RejectedFlags ==
    \/ wip /\ ready
    \/ (wip \/ ready) /\ (download /= None \/ list)
    \/ download /= None /\ target_branch /= None

\* C11: handle_review raises a usage error, with no workflow function called and no
\* git or network operation made, when --wip and --ready are both set, when --wip or
\* --ready is set in download or list mode, and when --download comes with a
\* positional target branch; so run_review is never entered with wip and ready
\* both true.
C11_FlagsRejectedUpFront ==
    /\ (pc /= "handle_review" /\ RejectedFlags) =>
           /\ Done
           /\ error = "UsageError"
           /\ exit_code = 2
           /\ trace = <<>>
    /\ Called("run_review") => ~(wip /\ ready)

C11_Witness ==
    /\ Done
    /\ wip /\ ready
    /\ download = None /\ ~list
    /\ error = "UsageError"
    /\ trace = <<>>

\* the '/'-separated segments of a path
Segments(P) == Split(P, "/")

\* a path of two or more segments, none of them empty
IsRepoPath(P) == Len(Segments(P)) >= 2 /\ \A i \in 1..Len(Segments(P)) : Segments(P)[i] /= ""

\* the split of a path P the claims describe: the last segment is the repository,
\* the segments before it are the owner
ExpectedSplit(P) ==
    [owner |-> Join(ButLast(Segments(P)), "/"),
     repo |-> Segments(P)[Len(Segments(P))],
     full_path |-> Join(ButLast(Segments(P)), "/") \o "/" \o Segments(P)[Len(Segments(P))]]

\* the client was constructed, or its construction failed
Parsed == pc = "done" /\ parsed /= None

\* the owner / repo / full_path part of what was parsed
SplitOf(r) == [owner |-> r[2].owner, repo |-> r[2].repo, full_path |-> r[2].full_path]

\* C12: for every remote git@H:P.git whose path P has two or more segments, parsing
\* yields hostname = H, base_url = https://H, repo_name = the last segment of P,
\* owner_path = the earlier segments joined by '/', and full_path = owner_path / repo_name.
C12_ScpRemoteParsed ==
    \A H \in ParseHosts, P \in ParsePaths :
        (Parsed /\ IsRepoPath(P) /\ remote_url = Some(ScpUrl(H, P, ".git"))) =>
            /\ parsed /= ParseError
            /\ parsed[2].hostname = H
            /\ parsed[2].base_url = "https://" \o H
            /\ SplitOf(parsed) = ExpectedSplit(P)

\* a host with a label that starts with git loses ".git" from its name
C12_Witness ==
    /\ Parsed
    /\ remote_url = Some("git@my.gitlab.com:g1/g2/r.git")
    /\ parsed /= ParseError
    /\ parsed[2].hostname = "mylab.com"
    /\ parsed[2].owner = "g1/g2"

\* the segments of a path that are not empty
NamedSegments(P) == SelectSeq(Segments(P), LAMBDA seg : seg /= "")

\* a path that names fewer than two segments
IsShortPath(P) == Len(NamedSegments(P)) < 2

\* the remote is of the git@ form, or of a scheme-qualified form, with path P
RemoteHasPath(P) ==
    \/ \E H \in ParseHosts, X \in ParseSuffixes : remote_url = Some(ScpUrl(H, P, X))
    \/ \E S \in ParseSchemes, U \in ParseUsers, H \in UrlHosts, Pt \in ParsePorts,
          X \in ParseSuffixes : remote_url = Some(SchemeUrl(S, U, H, Pt, P, X))

\* C13: parsing fails with a ValueError, and returns no descriptor, when there is no
\* remote origin, when the path has fewer than two segments (git@ form or
\* scheme-qualified form), and when a git@ URL has no colon between host and path.
C13_BadRemoteRejected ==
    Parsed =>
        /\ (remote_url = None => parsed = ParseError)
        /\ \A P \in ParsePaths : (IsShortPath(P) /\ RemoteHasPath(P)) => parsed = ParseError
        /\ (remote_url \in { Some(u) : u \in NoColonUrls } => parsed = ParseError)

\* a git@ remote with one path segment and a trailing slash is parsed into a
\* descriptor with an empty repository name
C13_Witness ==
    /\ Parsed
    /\ remote_url = Some("git@gitea.example.com:r/")
    /\ parsed /= ParseError
    /\ parsed[2].repo = ""
    /\ error = ""

\* C14: for every remote scheme://[user@]H[:port]/P.git, parsing yields the same
\* owner_path / repo_name / full_path split as for the remote git@H:P.git with the
\* same path P, hostname = H without user and port, and base_url = https://H when
\* the scheme is ssh and scheme://H otherwise.
C14_SchemeRemoteParsed ==
    \A S \in ParseSchemes, U \in ParseUsers, H \in UrlHosts, Pt \in ParsePorts,
       P \in ParsePaths :
        (Parsed /\ IsRepoPath(P) /\ remote_url = Some(SchemeUrl(S, U, H, Pt, P, ".git"))) =>
            /\ parsed /= ParseError
            /\ SplitOf(parsed) = SplitOf(ParseScp(ScpUrl("gitea.example.com", P, ".git")))
            /\ parsed[2].hostname = H
            /\ parsed[2].base_url = (IF S = "ssh" THEN "https://" ELSE S \o "://") \o H

\* the host of an IPv6 remote is cut at its first colon
C14_Witness ==
    /\ Parsed
    /\ remote_url = Some("ssh://git@[2001:db8::1]:2222/o/r.git")
    /\ parsed /= ParseError
    /\ parsed[2].hostname = "[2001"
    /\ parsed[2].base_url = "https://[2001"

\* C15: without a token (none passed, none configured) the construction of the
\* hosting client fails with a ValueError, no operation of the client is ever called
\* and no API request is sent; the submit, download or list run exits with status 1.
C15_NoTokenNoClient ==
    ~tokenSet =>
        /\ NoHostingCall
        /\ Count("http") = 0
        /\ (ClientsBuilt > 0 => Done /\ exit_code = 1 /\ error = "ValueError")
        /\ ((Done /\ UseCasesEntered = 1) => exit_code = 1)

C15_Witness ==
    /\ ~tokenSet
    /\ Done
    /\ failed = "token"
    /\ error = "ValueError"
    /\ exit_code = 1
    /\ parsed /= ParseError
    /\ Called("download_review")

\* entries i .. i+4 of the trace are a create_review(_, source, tgt, draft = TRUE)
\* that succeeded and, right after it, a check_existing_review(source, tgt) that
\* was answered with the list of open reviews
CreatedThenChecked(i) ==
    /\ i + 4 <= Len(trace)
    /\ trace[i].op = "create_review"
    /\ trace[i].args[4] = TRUE
    /\ trace[i + 1].op = "return"
    /\ trace[i + 2].op = "check_existing_review"
    /\ trace[i + 2].args = <<trace[i].args[2], trace[i].args[3]>>
    /\ trace[i + 3].args = <<"list">>

\* the review a call returned is a draft: its title carries the platform's prefix
ReturnedDraft(e) ==
    /\ e.op = "return"
    /\ e.args[1] /= None
    /\ CurrentDraft(backend, e.args[1][1].title)

\* C16: after create(title, desc, src, tgt, draft = TRUE) succeeds,
\* check_existing(src, tgt) returns a review whose draft flag is true.
C16_DraftRoundTrip ==
    \A i \in 1..Len(trace) : CreatedThenChecked(i) => ReturnedDraft(trace[i + 4])

\* on Gitea the check hands back an older review of the same source branch, made
\* for another target and not a draft
C16_Witness ==
    /\ backend = "gitea"
    /\ CreatedThenChecked(1)
    /\ trace[1].args[3] = "develop"
    /\ Len(reviews) = 2
    /\ reviews[1].base = "main"
    /\ reviews[1].head = trace[1].args[2]
    /\ trace[5].args[1] = Some(AsReview(reviews[1]))
    /\ ~ReturnedDraft(trace[5])

\* the last call of the trace is a check_existing_review, at entry i
LastIsCheck(i) == trace[i].op = "check_existing_review" /\ i + 2 = Len(trace)

\* the first of the listed open reviews, as a Review, whose place is in idx
FirstListed(idx) ==
    IF idx = {} THEN None
    ELSE Some(AsReview(reviews[CHOOSE i \in idx : \A j \in idx : i <= j]))

\* the places of the open reviews whose source branch is source
WithSource(source) == { i \in 1..Len(reviews) : reviews[i].head = source }

\* the places of the open reviews the client matches: Gitea compares the source
\* branch, GitLab has the platform filter by source and target
Matching(source, tgt) ==
    { i \in WithSource(source) : backend = "gitlab" => reviews[i].base = tgt }

\* C17 as stated: check_existing(source_branch, target_branch) returns the first
\* review, in the platform's order, whose source branch is source_branch, None when
\* no open review matches; a transport failure, a non-2xx response and a malformed
\* response raise the API error and are never reported as no review.
C17_Original ==
    \A i \in 1..Len(trace) :
        LastIsCheck(i) =>
            IF trace[i + 1].args = <<"list">>
            THEN /\ trace[i + 2].op = "return"
                 /\ trace[i + 2].args[1] = FirstListed(WithSource(trace[i].args[1]))
            ELSE trace[i + 2] = Call("raise", <<APIError(backend)>>)

\* C17, amended: check_existing(source_branch, target_branch) returns the first
\* review, in the platform's order, whose source branch is source_branch and, on
\* GitLab, whose target branch is target_branch; None when no open review matches.
\* A transport failure, a non-2xx response, an empty body and a JSON object with
\* members raise the API error; an empty JSON object is read as no review.
C17_CheckExistingFirstMatch ==
    \A i \in 1..Len(trace) :
        LastIsCheck(i) =>
            IF trace[i + 1].args = <<"list">>
            THEN /\ trace[i + 2].op = "return"
                 /\ trace[i + 2].args[1] = FirstListed(Matching(trace[i].args[1], trace[i].args[2]))
            ELSE IF trace[i + 1].args = <<"empty_object">>
            THEN trace[i + 2] = Call("return", <<None>>)
            ELSE trace[i + 2] = Call("raise", <<APIError(backend)>>)

\* GitLab reports no review although an open one of the source branch is listed,
\* for another target
C17_Witness ==
    /\ backend = "gitlab"
    /\ Len(trace) = 3
    /\ LastIsCheck(1)
    /\ trace[2].args = <<"list">>
    /\ trace[3] = Call("return", <<None>>)
    /\ WithSource(trace[1].args[1]) /= {}

\* C18: every run of submit, download or list ends with exit status 0 or 1: a
\* failure of the git client, of the hosting adapter (its construction or a call)
\* or of a prompt ends the run with status 1, and no exception leaves the use case.
C18_ExitZeroOrOne ==
    /\ pc /= "escaped"
    /\ (Done /\ UseCasesEntered >= 1) =>
          /\ exit_code \in { 0, 1 }
          /\ (error /= "" \/ failed /= "") <=> exit_code = 1

\* a git command failed in the middle of submit and the run ended with status 1
C18_Witness ==
    /\ Done
    /\ UseCasesEntered = 1
    /\ error = "GitCommandError"
    /\ exit_code = 1

\* the entries of the trace that check out an existing branch or reset one
IsReset(i) == trace[i].op = "git.reset"

\* C19: in a submit run that creates a change branch (the current branch is the
\* default branch or the target), the branch checked out and hard-reset to
\* origin/<branch> is the vacated branch, the one that was current when the run
\* started, and no other branch is reset; when the push happens the change branch
\* is checked out again.
C19_VacatedBranchReset ==
    Resolved =>
        /\ \A i \in 1..Len(trace) :
             IsReset(i) =>
                 /\ Count("create_change_branch") = 1
                 /\ trace[i].args = <<"--hard", "origin/" \o current_branch>>
                 /\ i > 1
                 /\ trace[i - 1] = Call("git.checkout", <<current_branch>>)
        /\ (Called("git.push") /\ Count("create_change_branch") = 1) =>
             /\ \E i \in 1..Len(trace) : IsReset(i) /\ i < FirstIdx("git.push")
             /\ trace[FirstIdx("push_branch") - 1] = Call("git.checkout", <<branch_name>>)
             /\ branch_name /= current_branch

\* a run started on the default branch towards another target checked out and
\* reset the target, a branch it never left, and pushed the change branch
C19_Witness ==
    /\ Resolved
    /\ target /= current_branch
    /\ \E i \in 2..Len(trace) :
         /\ IsReset(i)
         /\ trace[i].args = <<"--hard", "origin/" \o target>>
         /\ trace[i - 1] = Call("git.checkout", <<target>>)
    /\ Called("git.push")
    /\ head = branch_name

\* the three entries of the trace that end with entry i
ThreeUpTo(i) == IF i >= 3 THEN SubSeq(trace, i - 2, i) ELSE <<>>

\* C20: resetting a branch to its origin counterpart is always a checkout of the
\* branch, a fetch of it from origin and a hard reset to origin/<branch>, in this
\* order; in particular the reset submit makes on the vacated branch is preceded by
\* a fetch of that branch.
C20_ResetFetchesFirst ==
    Submit =>
        \A i \in 1..Len(trace) :
            trace[i].op = "git.reset" =>
                ThreeUpTo(i) = reset_main_to_origin(current_to_reset)

\* submit has reset a branch to its origin counterpart straight after the checkout,
\* and the run has fetched nothing
C20_Witness ==
    /\ Submit
    /\ Count("git.fetch") = 0
    /\ \E i \in 2..Len(trace) :
         /\ trace[i] = reset_main_to_origin(current_to_reset)[3]
         /\ trace[i - 1] = reset_main_to_origin(current_to_reset)[1]

\* the git commands that create, check out or reset a branch
BranchCommands == { "create_change_branch", "git.checkout", "git.reset" }

\* C21: in a submit run whose current branch is neither the default branch nor the
\* target, no branch is created, checked out or reset, and the branch pushed and
\* used as the source of the review is the current branch, for a name that starts
\* with "change/" and for any other name alike; the name alone never ends the run.
C21_OtherBranchReused ==
    (Resolved /\ current_branch /= main_branch /\ current_branch /= target) =>
        /\ \A i \in 1..Len(trace) :
             /\ trace[i].op \notin BranchCommands
             /\ trace[i].op = "push_branch" => trace[i].args = <<current_branch>>
             /\ trace[i].op = "git.push" => trace[i].args = PushArgs(current_branch, TRUE, TRUE)
             /\ trace[i].op = "check_existing_review" => trace[i].args[1] = current_branch
             /\ trace[i].op = "create_review" => trace[i].args[2] = current_branch
        /\ head = current_branch
        /\ pc \notin { "run_review", "rr_resolve", "rr_branch" } => branch_name = current_branch
        /\ Done => (Called("git.push") \/ failed = "has_uncommitted_changes")

\* a review was created from a branch that is no change branch, as it was
C21_Witness ==
    /\ Resolved
    /\ current_branch = "feature/x"
    /\ target /= current_branch
    /\ Called("create_review")
    /\ review /= None
    /\ Done /\ exit_code = 0

\* the i-th entry of the trace is an update_review_status call that asks for the
\* other draft state than the one the review's title shows
OtherStateUpdate(i) == trace[i].op = "update_review_status" /\ ~SameStateUpdate(i)

\* the title the claim expects a call to write: the prefix put in front, or the
\* prefix cut off the front
ToggledTitle(old, draft) ==
    IF draft THEN DraftPrefix(backend) \o old
    ELSE SubSeq(old, Len(DraftPrefix(backend)) + 1, Len(old))

IsWrite(i) == i <= Len(trace) /\ trace[i].op = "http"

\* C22: update_review_status with a requested draft state other than the review's
\* current one issues exactly one write, whose title is the old title with the
\* platform's draft prefix added (draft = true) or stripped (draft = false); draft
\* then ready on a review that was no draft writes, with the second call, exactly
\* the original title, and the prefix is never added twice.
C22_UpdateTogglesPrefix ==
    \A i \in 1..Len(trace) :
        OtherStateUpdate(i) =>
            LET old == trace[i].args[1]
                draft == trace[i].args[2]
            IN  /\ IsWrite(i + 1) /\ ~IsWrite(i + 2)
                /\ trace[i + 1].args = <<"PATCH", old.number, ToggledTitle(old.title, draft)>>
                /\ draft => ~StartsWith(old.title, DraftPrefix(backend))
                /\ (draft /\ i + 2 <= Len(trace) /\ OtherStateUpdate(i + 2)) =>
                       /\ trace[i + 2].args[1].title = DraftPrefix(backend) \o old.title
                       /\ trace[i + 3].args[3] = old.title

\* a review that was no draft was made a draft and then ready again, with two writes
C22_Witness ==
    /\ Len(trace) = 4
    /\ OtherStateUpdate(1) /\ trace[1].args[2] = TRUE
    /\ OtherStateUpdate(3) /\ trace[3].args[2] = FALSE
    /\ trace[1].args[1].title = "WIP:fix/a"
    /\ trace[4].args[3] = "WIP:fix/a"
    /\ review[1].title = "WIP:fix/a"

\* entry i of the trace is the platform's answer resp to a request, and the
\* operation raised
FailedWith(i, resp) ==
    /\ trace[i] = Call("response", <<resp>>)
    /\ i < Len(trace)
    /\ trace[i + 1].op = "raise"

\* C23: the adapter operations map errors by one rule that keeps the two origins
\* apart: a non-2xx response is raised as the API error, a transport failure (DNS,
\* connect, timeout) as an error of another type, so that a caller can tell the two
\* by the type of the error.
C23_TransportErrorDistinct ==
    \A i \in 1..Len(trace) :
        /\ trace[i] = Call("response", <<"http_error">>) =>
               FailedWith(i, "http_error") /\ trace[i + 1].args = <<APIError(backend)>>
        /\ trace[i] = Call("response", <<"transport_error">>) =>
               FailedWith(i, "transport_error") /\ trace[i + 1].args /= <<APIError(backend)>>

\* a refused connection and an HTTP error status were raised as the same type
C23_Witness ==
    /\ Len(trace) = 6
    /\ FailedWith(2, "transport_error")
    /\ FailedWith(5, "http_error")
    /\ trace[3].args = trace[6].args

\* the suffixes that leave the path as it is, or add the one trailing ".git"
PlainSuffixes == { ".git", "" }

\* C24: parsing strips only a trailing ".git" of the path: a git@ remote is split
\* into host and path at the first ':' after the '@', and an occurrence of ".git"
\* (or of "git@") elsewhere, in the hostname or in a path segment, is kept as it is
\* in hostname, owner_path and repo_name.
C24_OnlyTrailingGitStripped ==
    \A H \in ParseHosts, P \in ParsePaths, X \in PlainSuffixes :
        (Parsed /\ IsRepoPath(P)) =>
            /\ remote_url = Some(ScpUrl(H, P, X)) =>
                   /\ parsed /= ParseError
                   /\ parsed[2].hostname = H
                   /\ SplitOf(parsed) = ExpectedSplit(P)
            /\ \A S \in ParseSchemes, U \in ParseUsers, Pt \in ParsePorts :
                   remote_url = Some(SchemeUrl(S, U, H, Pt, P, X)) =>
                       /\ parsed /= ParseError
                       /\ parsed[2].hostname = H
                       /\ SplitOf(parsed) = ExpectedSplit(P)

\* a repository whose name holds ".git" in the middle loses it
C24_Witness ==
    /\ Parsed
    /\ remote_url = Some("https://gitea.example.com/o/site.github.io.git")
    /\ parsed /= ParseError
    /\ parsed[2].hostname = "gitea.example.com"
    /\ parsed[2].repo = "sitehub.io"

\* the run is past the branch selection of lines 37-57
BranchSelected == Resolved /\ pc \notin { "rr_resolve", "rr_branch" }

\* the run took the current branch as it is: nothing created, nothing reset
ReusedCurrent ==
    /\ Count("create_change_branch") = 0
    /\ Count("git.reset") = 0
    /\ BranchSelected => branch_name = current_branch

\* get_main_branch gives the name origin/HEAD points to, "master" without it, and
\* without it no branch but master is the default branch
MasterFallback ==
    /\ originHead = None => get_main_branch = "master"
    /\ originHead = Some("refs/remotes/origin/main") => get_main_branch = "main"
    /\ Resolved => main_branch = get_main_branch
    /\ (originHead = None /\ head /= "master") => ~is_on_main_branch

\* C25 as stated: get_main_branch returns the branch refs/remotes/origin/HEAD points
\* to and "master" when that reference is not configured; with the reference unset,
\* is_on_main_branch is false on every branch not named master (main included) and
\* submit treats such a branch as a change or non-standard branch, not as the
\* default branch.
C25_Original ==
    /\ MasterFallback
    /\ (Resolved /\ originHead = None /\ current_branch /= "master") => ReusedCurrent

\* C25, amended: get_main_branch returns the branch refs/remotes/origin/HEAD points
\* to and "master" when that reference is not configured; with the reference unset,
\* is_on_main_branch is false on every branch not named master (main included), and
\* submit takes such a branch as it is unless it is the target named on the command
\* line: then a change branch is created for it as the target branch, and the
\* branch reset is the target, never master.
C25_MasterFallback ==
    /\ MasterFallback
    /\ (Resolved /\ originHead = None /\ current_branch /= "master") =>
           IF current_branch /= target
           THEN ReusedCurrent
           ELSE /\ target_branch = Some(current_branch)
                /\ BranchSelected => Count("create_change_branch") = 1
                /\ \A i \in 1..Len(trace) :
                     trace[i].op = "git.reset" => trace[i].args = <<"--hard", "origin/" \o target>>

\* with origin/HEAD unset a run on main pushed main itself towards master
C25_Witness ==
    /\ Resolved
    /\ originHead = None
    /\ current_branch = "main"
    /\ main_branch = "master" /\ target = "master"
    /\ Calls("push_branch") = <<Call("push_branch", <<"main">>)>>

\* what follows entry i of the trace
After(i) == SubSeq(trace, i + 1, Len(trace))

\* C26: fetch_and_checkout_branch(name) first fetches name from origin; when the
\* fetch fails it raises a ValueError without a checkout or a reset; when a local
\* branch name exists it checks it out and hard-resets it to origin/<name>;
\* otherwise it creates the local branch name from origin/<name> with one checkout
\* and no reset.
C26_FetchThenCheckout ==
    \A i \in 1..Len(trace) :
        trace[i].op = "fetch_and_checkout_branch" =>
            LET name == trace[i].args[1]
                fetch == Call("git.fetch", <<"origin", name>>)
            IN  IF failed = "fetch_and_checkout_branch"
                THEN /\ After(i) = <<fetch>>
                     /\ error = "ValueError" /\ exit_code = 1
                     /\ Count("git.checkout") = 0 /\ Count("git.reset") = 0
                ELSE IF name \in StartBranches
                THEN /\ After(i) = <<fetch, Call("git.checkout", <<name>>),
                                     Call("git.reset", <<"--hard", "origin/" \o name>>)>>
                     /\ head = name /\ local[name] = track[name]
                ELSE /\ After(i) = <<fetch, Call("git.checkout", <<"-b", name, "origin/" \o name>>)>>
                     /\ head = name /\ local[name] = track[name]

\* the branch of the review was not in the repository and was created from origin
C26_Witness ==
    /\ Download /\ Done /\ exit_code = 0
    /\ pr[1].source_branch = "feature/y"
    /\ head = "feature/y"
    /\ Count("git.fetch") = 1 /\ Count("git.checkout") = 1 /\ Count("git.reset") = 0

\* the git commands of a run
GitCommands == { "git.checkout", "git.reset", "git.fetch", "git.push" }

\* a git step failed after the change branch was created
GitStepFailed ==
    /\ Submit
    /\ Count("create_change_branch") = 1
    /\ branch_name /= ""
    /\ failed \in { "git.checkout", "git.reset", "push_branch" }

\* the branch the last checkout before the last entry of the trace went to
LastCheckedOut ==
    LET done == { i \in 1..(Len(trace) - 1) : trace[i].op = "git.checkout" }
        last == CHOOSE i \in done : \A j \in done : j <= i
    IN  trace[last].args[Len(trace[last].args)]

\* C27: submit neither rolls back nor retries: when a git step fails after the
\* change branch was created (the checkout or the reset of the vacated branch, or
\* the push), the run exits with status 1 and leaves the repository as the last
\* completed git operation left it: the change branch still exists and every git
\* operation was attempted at most once.
C27_NoRollbackNoRetry ==
    GitStepFailed =>
        /\ Done /\ exit_code = 1
        /\ trace[Len(trace)].op = (IF failed = "push_branch" THEN "git.push" ELSE failed)
        /\ \A i, j \in 1..Len(trace) :
             (trace[i].op \in GitCommands /\ trace[i] = trace[j]) => i = j
        /\ branch_name \in DOMAIN local
        /\ local[branch_name] = 1
        /\ head = LastCheckedOut
        /\ track = [b \in StartBranches |-> 0]
        /\ ClientsBuilt = 0 /\ NoHostingCall

\* the reset of the vacated branch failed: the run ended on that branch, the change
\* branch in place
C27_Witness ==
    /\ GitStepFailed
    /\ failed = "git.reset"
    /\ Done /\ exit_code = 1
    /\ head = current_to_reset
    /\ branch_name \in DOMAIN local
    /\ Count("git.push") = 0

\* the platform holds an open review from source to tgt
ReviewFor(source, tgt) ==
    \E i \in 1..Len(reviews) : reviews[i].head = source /\ reviews[i].base = tgt

\* this step of a run calls op
Calling(op) == Count(op)' > Count(op)

\* the runs of the command so far
Runs == Count("run_review")

\* C28: submit is idempotent in the creation of reviews: once the platform holds a
\* review for (branch B, target T), a later submit run from B to T on the unchanged
\* platform makes no create_review call and creates no review, and without --wip and
\* --ready it writes nothing to the platform; over any sequence of submit runs from
\* B to T at most one review is created.
C28_SubmitIdempotent ==
    [][ /\ Calling("create_review") => ~ReviewFor(branch_name, target)
        /\ Len(reviews') > Len(reviews) =>
               /\ ~ReviewFor(branch_name, target)
               /\ Len(reviews') = Len(reviews) + 1
        /\ (Calling("http") /\ ReviewFor(branch_name, target)) =>
               /\ wip \/ ready
               /\ trace'[Len(trace')].args[1] = "PATCH" ]_vars

\* the first run created the review, the second run found it and wrote nothing
C28_Witness ==
    /\ Runs = 2
    /\ Done /\ exit_code = 0
    /\ ~wip /\ ~ready
    /\ Count("create_review") = 1
    /\ Count("http") = 0
    /\ Count("check_existing_review") = 1
    /\ existing_review /= None
    /\ Len(reviews) = 1
    /\ reviews[1].head = branch_name /\ reviews[1].base = target

\* the place of an operation in the order of a submit run
StepOf(op) ==
    CASE op = "run_review" -> 0
      [] op = "has_uncommitted_changes" -> 1
      [] op \in { "create_change_branch", "git.checkout", "git.reset" } -> 2
      [] op \in { "push_branch", "git.push" } -> 3
      [] op \in { "GiteaClient", "GitLabClient" } -> 4
      [] op = "check_existing_review" -> 5
      [] op \in { "get_pr_title", "get_pr_description" } -> 6
      [] op \in { "create_review", "update_review_status", "http" } -> 7
      [] OTHER -> 8

\* the step at which a failed operation stands
FailedStep ==
    CASE failed \in { "GitClient" } -> 0
      [] failed = "has_uncommitted_changes" -> 1
      [] failed \in { "create_change_branch", "git.checkout", "git.reset" } -> 2
      [] failed = "push_branch" -> 3
      [] failed \in { "_parse_remote_url", "token" } -> 4
      [] failed = "check_existing_review" -> 5
      [] failed \in { "get_pr_title", "get_pr_description" } -> 6
      [] failed \in { "create_review", "update_review_status" } -> 7
      [] OTHER -> 8

\* C29: the steps of a submit run come in one order, and a step is reached only
\* when the steps before it succeeded: the dirty tree check, the branch selection
\* (with creation and reset when needed), the push, the construction of the hosting
\* client, check_existing_review, then at most one of create_review and
\* update_review_status; the platform is never contacted before a successful push,
\* and create_review is never called unless check_existing_review returned nothing.
C29_StepsInOrder ==
    Submit =>
        /\ \A i, j \in 1..Len(trace) : i < j => StepOf(trace[i].op) <= StepOf(trace[j].op)
        /\ \A i \in 1..Len(trace) : StepOf(trace[i].op) <= 7
        /\ failed /= "" =>
             /\ Done
             /\ \A i \in 1..Len(trace) : StepOf(trace[i].op) <= FailedStep
        /\ Len(trace) >= 2 => trace[2].op = "has_uncommitted_changes"
        /\ Count("has_uncommitted_changes") <= 1 /\ Count("push_branch") <= 1
        /\ ClientsBuilt <= 1 /\ Count("check_existing_review") <= 1
        /\ Count("create_review") + Count("update_review_status") <= 1
        /\ (Called("push_branch") => ~dirty)
        /\ (ClientsBuilt = 1 =>
               /\ Count("git.push") = 1
               /\ failed /= "push_branch"
               /\ branch_name \in DOMAIN track /\ track[branch_name] = local[branch_name])
        /\ (\E i \in 1..Len(trace) : trace[i].op \in HostingOps \cup { "http" }) =>
               ClientsBuilt = 1 /\ parsed /= None /\ parsed /= ParseError /\ tokenSet
        /\ (Called("create_review") \/ Called("get_pr_title")) =>
               Count("check_existing_review") = 1 /\ existing_review = None
        /\ Called("update_review_status") =>
               Count("check_existing_review") = 1 /\ existing_review /= None

\* a run went through every step, from a new change branch to the created review
C29_Witness ==
    /\ Submit /\ Done /\ exit_code = 0
    /\ Count("create_change_branch") = 1
    /\ Count("git.reset") = 1
    /\ Count("git.push") = 1
    /\ Count("check_existing_review") = 1
    /\ Count("create_review") = 1
    /\ Count("update_review_status") = 0

\* the open review of the platform with number n runs from source to tgt
IsReviewFor(n, source, tgt) ==
    \E i \in 1..Len(reviews) :
        /\ reviews[i].number = n
        /\ reviews[i].head = source
        /\ reviews[i].base = tgt

\* C30: in submit on Gitea a review is taken as existing for the run's (source,
\* target) pair only if it is an open review whose source branch is the pushed
\* branch and whose target branch is the run's resolved target; an open review from
\* the same source to another target never suppresses create_review and is never
\* the one handed to update_review_status.
C30_GiteaExistingMatchesTarget ==
    (Submit /\ backend = "gitea") =>
        /\ existing_review /= None =>
               IsReviewFor(existing_review[1].number, branch_name, target)
        /\ \A i \in 1..Len(trace) :
               trace[i].op = "update_review_status" =>
                   IsReviewFor(trace[i].args[1].number, branch_name, target)
        /\ (Done /\ exit_code = 0) => ReviewFor(branch_name, target)

\* on Gitea the review of the pushed branch towards develop was taken for the one
\* towards main: it was updated, and no review towards main was created
C30_Witness ==
    /\ Submit /\ backend = "gitea"
    /\ Done /\ exit_code = 0
    /\ target = "main"
    /\ existing_review /= None
    /\ IsReviewFor(existing_review[1].number, branch_name, "develop")
    /\ ~ReviewFor(branch_name, "main")
    /\ Count("update_review_status") = 1
    /\ Count("create_review") = 0

====
